---------------------------- MODULE Spec2Model ----------------------------
(***************************************************************************)
(* The newsletter anti-automation gate of betterbliss-auth:                *)
(*   app/newsletter/security.py   challenge registry, proof of work,       *)
(*                                request signature, fingerprint format    *)
(*   app/utils/rate_limiting.py   the rate limiter consulted by the gate   *)
(* Time is in seconds.  Strings the code parses are sequences of           *)
(* one-character strings.                                                  *)
(***************************************************************************)
EXTENDS Integers, Sequences, FiniteSets, TLC

VARIABLES
    active_tokens,   \* security.py:14  token -> challenge record
    now,             \* the wall clock (datetime.now() / time.time()), seconds
    next_token,      \* the next fresh value secrets.token_urlsafe returns
    consumeWrites,   \* history: per token, how often line 84 wrote used = True
    lastCall,        \* the operation called by the last step and the value it returned
    pc,              \* per request handler: its state in the submission gate
    htok,            \* per request handler: the X-Security-Token it carries
    status,          \* per request handler: the HTTP status of its response
    rate_count,      \* rows of rate_limits for the caller inside the window
    accepted,        \* tokens of submissions forwarded to the subscription store
    fpArg,           \* argument of a validate_fingerprint call
    fpRes,           \* its result ("pending" before the call)
    sigArg,          \* arguments of a verify_request_signature call
    sigRes,          \* its result ("pending" before the call)
    env_key,         \* os.getenv('SERVER_PRIVATE_KEY_B64'), "none" when unset
    server_private_key,  \* crypto.py:17  SecureCrypto.server_private_key
    log,             \* the messages crypto.py has handed to its logger
    decArg,          \* argument of a decrypt_payload call
    decRes,          \* its outcome (DecPending before the call)
    subscribers,     \* table newsletter_subscribers: email -> status
    subArg,          \* arguments of a NewsletterService.subscribe call
    subRes,          \* its outcome (SubPending before the call)
    rl_calls         \* per caller of check_rate_limit: the frame of its call

vars == <<active_tokens, now, next_token, consumeWrites, lastCall, pc, htok,
          status, rate_count, accepted, fpArg, fpRes, sigArg, sigRes,
          env_key, server_private_key, log, decArg, decRes,
          subscribers, subArg, subRes, rl_calls>>

registryVars == <<active_tokens, now, next_token, consumeWrites>>
gateVars == <<pc, htok, status, rate_count, accepted>>
fpVars == <<fpArg, fpRes>>
sigVars == <<sigArg, sigRes>>
cryptoVars == <<env_key, server_private_key, log, decArg, decRes>>
storeVars == <<subscribers, subArg, subRes>>
rateVars == <<rl_calls>>
otherVars == <<sigVars, cryptoVars, storeVars, rateVars>>

---------------------------------------------------------------------------
(* Bounds of the model *)
MaxTokens == 2
GateMaxTokens == 1
MaxTicks == 2

(* Program constants *)
FINGERPRINT_LEN == 64
TTL_MINUTES == 10
SECONDS_PER_MINUTE == 60
DIFFICULTY == 4
SUBSCRIBE_MAX_REQUESTS == 3

TTL == TTL_MINUTES * SECONDS_PER_MINUTE
TARGET == <<"0", "0", "0", "0">>
CLIENT_IP == "203.0.113.7"

(* The clock advances by half a minute or by a whole TTL. *)
TickSteps == {30, TTL}
(* For the registry alone only the order of now and expires_at matters:   *)
(* whole TTLs give now < expires_at, now = expires_at and now > expires_at *)
FnTickSteps == {TTL}
TickCount(t) == (t \div TTL) + ((t % TTL) \div 30)

Handlers == {"h1", "h2"}

---------------------------------------------------------------------------
(* Python's int(text, base), as CPython parses it: surrounding whitespace  *)
(* is stripped, one sign is allowed, base 16 allows a 0x prefix, and       *)
(* single underscores may separate digits.                                 *)

WS == {" ", "\t", "\n"}
DecDigits == {"0", "1", "2", "3", "4", "5", "6", "7", "8", "9"}
HexDigits == DecDigits \cup {"a", "b", "c", "d", "e", "f", "A", "B", "C", "D", "E", "F"}
DigitChars(base) == IF base = 16 THEN HexDigits ELSE DecDigits

RECURSIVE LStrip(_)
LStrip(s) == IF s # <<>> /\ s[1] \in WS THEN LStrip(Tail(s)) ELSE s

RECURSIVE RStrip(_)
RStrip(s) == IF s # <<>> /\ s[Len(s)] \in WS THEN RStrip(SubSeq(s, 1, Len(s) - 1)) ELSE s

DropSign(s) == IF s # <<>> /\ s[1] \in {"+", "-"} THEN Tail(s) ELSE s

DropPrefix(s, base) ==
    IF base = 16 /\ Len(s) >= 2 /\ s[1] = "0" /\ s[2] \in {"x", "X"}
    THEN LET w == SubSeq(s, 3, Len(s))
         IN  IF w # <<>> /\ w[1] = "_" THEN Tail(w) ELSE w
    ELSE s

DigitsOk(s, base) ==
    /\ s # <<>>
    /\ s[1] # "_"
    /\ s[Len(s)] # "_"
    /\ \A i \in 1..Len(s) :
          IF s[i] = "_" THEN s[i + 1] # "_" ELSE s[i] \in DigitChars(base)

PyIntBody(s, base) == DropPrefix(DropSign(RStrip(LStrip(s))), base)

PyIntValid(s, base) == DigitsOk(PyIntBody(s, base), base)

DecVal(c) ==
    CASE c = "0" -> 0 [] c = "1" -> 1 [] c = "2" -> 2 [] c = "3" -> 3
      [] c = "4" -> 4 [] c = "5" -> 5 [] c = "6" -> 6 [] c = "7" -> 7
      [] c = "8" -> 8 [] c = "9" -> 9

RECURSIVE DigitsValue(_, _)
DigitsValue(s, acc) ==
    IF s = <<>> THEN acc
    ELSE IF s[1] = "_" THEN DigitsValue(Tail(s), acc)
    ELSE DigitsValue(Tail(s), acc * 10 + DecVal(s[1]))

(* int(s) for a string PyIntValid(s, 10) accepts *)
PyIntValue(s) ==
    LET t == RStrip(LStrip(s))
        v == DigitsValue(DropSign(t), 0)
    IN  IF t[1] = "-" THEN 0 - v ELSE v

DecChar(d) ==
    CASE d = 0 -> "0" [] d = 1 -> "1" [] d = 2 -> "2" [] d = 3 -> "3"
      [] d = 4 -> "4" [] d = 5 -> "5" [] d = 6 -> "6" [] d = 7 -> "7"
      [] d = 8 -> "8" [] d = 9 -> "9"

RECURSIVE NatStr(_)
NatStr(n) == IF n < 10 THEN <<DecChar(n)>> ELSE NatStr(n \div 10) \o <<DecChar(n % 10)>>

(* f"{nonce}" *)
PyStr(n) == IF n < 0 THEN <<"-">> \o NatStr(0 - n) ELSE NatStr(n)

---------------------------------------------------------------------------
(* validate_fingerprint, security.py:113-123 *)
validate_fingerprint(fingerprint) ==
    IF fingerprint = <<>> \/ Len(fingerprint) # FINGERPRINT_LEN
    THEN FALSE
    ELSE PyIntValid(fingerprint, 16)

(* A fingerprint: head, then "a" up to length n less the tail, then tail *)
Build(head, n, tail) ==
    head \o [i \in 1..(n - Len(head) - Len(tail)) |-> "a"] \o tail

FpA == Build(<<>>, FINGERPRINT_LEN, <<>>)
FpPlus == Build(<<"+">>, FINGERPRINT_LEN, <<>>)
FpShort == Build(<<>>, FINGERPRINT_LEN - 1, <<>>)

IssueFps == {FpA, FpPlus, FpShort}
VerifyFps == {FpA, FpPlus}


---------------------------------------------------------------------------
(* The challenge registry, security.py:14 *)

Token(i) == <<"tok", i>>
Tokens == {Token(i) : i \in 1..MaxTokens}
UnknownToken == Token(0)
TokenArgs == {UnknownToken} \cup Tokens

EmptyRegistry == [x \in {} |-> x]
Put(reg, k, v) == [x \in (DOMAIN reg) \cup {k} |-> IF x = k THEN v ELSE reg[x]]
Del(reg, k) == [x \in (DOMAIN reg) \ {k} |-> reg[x]]

(* hashlib.sha256(text).hexdigest(), abstracted to a deterministic function *)
(* of the hashed text with four digests, one of which meets the target     *)
DigestTable ==
    << <<"0", "0", "0", "0", "9">>, <<"0", "0", "0", "1", "0">>,
       <<"f", "0", "0", "0", "0">>, <<"0", "0", "a", "0", "0">> >>

CharCode(c) == IF c \in DecDigits THEN DecVal(c) ELSE IF c \in HexDigits THEN 10 ELSE 11

RECURSIVE StrCode(_)
StrCode(s) == IF s = <<>> THEN 0 ELSE CharCode(s[1]) + StrCode(Tail(s))

FpCode(fp) == IF fp = <<>> THEN 0 ELSE CharCode(fp[1]) + Len(fp)

(* data is challenge["data"] = token:fingerprint:int(time.time()) *)
sha256_hexdigest(data, nonceText) ==
    DigestTable[((data[1][2] * 5 + FpCode(data[2]) + (data[3] \div 30)
                  + 3 * StrCode(nonceText)) % 4) + 1]

StartsWith(s, prefix) ==
    Len(s) >= Len(prefix) /\ SubSeq(s, 1, Len(prefix)) = prefix

(* generate_secure_token storing an entry that expires one minute early *)
generate_secure_token_short_ttl(reg, token, fingerprint, client_ip, t) ==
    Put(reg, token,
        [fingerprint |-> fingerprint,
         client_ip   |-> client_ip,
         created_at  |-> t,
         expires_at  |-> t + TTL - SECONDS_PER_MINUTE,
         challenge   |-> [data |-> <<token, fingerprint, t>>,
                          target |-> TARGET,
                          difficulty |-> DIFFICULTY],
         used        |-> FALSE])

(* generate_secure_token, security.py:16-42: the registry after the call *)
generate_secure_token(reg, token, fingerprint, client_ip, t) ==
    Put(reg, token,
        [fingerprint |-> fingerprint,
         client_ip   |-> client_ip,
         created_at  |-> t,
         expires_at  |-> t + TTL,
         challenge   |-> [data |-> <<token, fingerprint, t>>,
                          target |-> TARGET,
                          difficulty |-> DIFFICULTY],
         used        |-> FALSE])

(* verify_security_token without the check of used (lines 62-65 dropped) *)
verify_security_token_ignoring_used(reg, token, fingerprint, t) ==
    IF token \notin DOMAIN reg THEN FALSE
    ELSE IF t > reg[token].expires_at THEN FALSE
    ELSE IF reg[token].fingerprint # fingerprint THEN FALSE
    ELSE TRUE

(* verify_security_token with the expiry test >= instead of > *)
verify_security_token_expiry_off_by_one(reg, token, fingerprint, t) ==
    IF token \notin DOMAIN reg THEN FALSE
    ELSE IF t >= reg[token].expires_at THEN FALSE
    ELSE IF reg[token].fingerprint # fingerprint THEN FALSE
    ELSE IF reg[token].used THEN FALSE
    ELSE TRUE

(* verify_security_token, security.py:44-67: the value returned *)
verify_security_token(reg, token, fingerprint, t) ==
    IF token \notin DOMAIN reg THEN FALSE
    ELSE IF t > reg[token].expires_at THEN FALSE
    ELSE IF reg[token].fingerprint # fingerprint THEN FALSE
    ELSE IF reg[token].used THEN FALSE
    ELSE TRUE

(* verify_security_token marking the challenge used when it looks it up *)
verify_security_token_registry_marking_used(reg, token, t) ==
    IF token \in DOMAIN reg /\ t > reg[token].expires_at
    THEN Del(reg, token)
    ELSE IF token \in DOMAIN reg THEN [reg EXCEPT ![token].used = TRUE]
    ELSE reg

(* verify_security_token deleting the entry it looked up on every failure *)
verify_security_token_registry_evicting_used(reg, token, t) ==
    IF token \in DOMAIN reg /\ (t > reg[token].expires_at \/ reg[token].used)
    THEN Del(reg, token)
    ELSE reg

(* verify_security_token, security.py:52-53: the registry after the call *)
verify_security_token_registry(reg, token, t) ==
    IF token \in DOMAIN reg /\ t > reg[token].expires_at
    THEN Del(reg, token)
    ELSE reg

(* validate_proof_of_work taking a solution it cannot parse for a valid one *)
validate_proof_of_work_accepting_unparsed(reg, solution, token) ==
    IF token \notin DOMAIN reg THEN FALSE
    ELSE IF ~PyIntValid(solution, 10) THEN TRUE
    ELSE LET challenge == reg[token].challenge
             nonce == PyIntValue(solution)
         IN  StartsWith(sha256_hexdigest(challenge.data, PyStr(nonce)),
                        challenge.target)

(* validate_proof_of_work, security.py:78 and 91-93: int(solution) raises  *)
(* ValueError and the except clause returns False                          *)
validate_proof_of_work_caught(reg, solution, token) ==
    token \in DOMAIN reg /\ ~PyIntValid(solution, 10)

(* validate_proof_of_work, security.py:69-93: the value returned *)
validate_proof_of_work(reg, solution, token) ==
    IF token \notin DOMAIN reg THEN FALSE
    ELSE IF ~PyIntValid(solution, 10) THEN FALSE
    ELSE LET challenge == reg[token].challenge
             nonce == PyIntValue(solution)
         IN  StartsWith(sha256_hexdigest(challenge.data, PyStr(nonce)),
                        challenge.target)

(* validate_proof_of_work, security.py:86-87: the digest does not start    *)
(* with the target and the call returns False                              *)
validate_proof_of_work_mismatch(reg, solution, token) ==
    /\ token \in DOMAIN reg
    /\ PyIntValid(solution, 10)
    /\ ~validate_proof_of_work(reg, solution, token)

(* validate_proof_of_work writing used = True for every parsed attempt *)
validate_proof_of_work_registry_burning(reg, solution, token) ==
    IF token \in DOMAIN reg /\ PyIntValid(solution, 10)
    THEN [reg EXCEPT ![token].used = TRUE]
    ELSE reg

(* validate_proof_of_work, security.py:82-84: the registry after the call *)
validate_proof_of_work_registry(reg, solution, token) ==
    IF validate_proof_of_work(reg, solution, token)
    THEN [reg EXCEPT ![token].used = TRUE]
    ELSE reg

(* cleanup_expired_tokens comparing with >= instead of > *)
cleanup_expired_tokens_off_by_one(reg, t) ==
    [x \in {k \in DOMAIN reg : ~(t >= reg[k].expires_at)} |-> reg[x]]

(* cleanup_expired_tokens, security.py:125-135: the registry after the call *)
cleanup_expired_tokens(reg, t) ==
    [x \in {k \in DOMAIN reg : ~(t > reg[k].expires_at)} |-> reg[x]]

Solutions ==
    {<<"0">>, <<"1">>, <<"2">>, <<"3">>, <<"+", "1">>, <<"x">>}

NoCall == [op |-> "none", result |-> FALSE]

(* consumeWrites counts 0, 1, and 2 for "more than once" *)
Bump(n) == IF n = 0 THEN 1 ELSE 2

---------------------------------------------------------------------------
(* Operations on the registry *)

(* ChallengeIssuer.issue: format validation, then generate_secure_token *)
issue(fingerprint, limit) ==
    /\ IF validate_fingerprint(fingerprint)
       THEN /\ next_token <= limit
            /\ active_tokens' = generate_secure_token(active_tokens, Token(next_token),
                                                      fingerprint, CLIENT_IP, now)
            /\ next_token' = next_token + 1
            /\ lastCall' = [op |-> "issue", result |-> TRUE]
       ELSE /\ UNCHANGED <<active_tokens, next_token>>
            /\ lastCall' = [op |-> "issue", result |-> FALSE]
    /\ UNCHANGED <<now, consumeWrites, gateVars, fpVars, otherVars>>

(* a direct call verify_security_token(token, fingerprint) *)
CallVerifyToken(token, fingerprint) ==
    /\ active_tokens' = verify_security_token_registry(active_tokens, token, now)
    /\ lastCall' = [op |-> "verify",
                    result |-> verify_security_token(active_tokens, token, fingerprint, now)]
    /\ UNCHANGED <<now, next_token, consumeWrites, gateVars, fpVars, otherVars>>

(* a direct call validate_proof_of_work(solution, token) *)
CallValidatePow(solution, token) ==
    LET ok == validate_proof_of_work(active_tokens, solution, token)
    IN  /\ active_tokens' = validate_proof_of_work_registry(active_tokens, solution, token)
        /\ consumeWrites' = IF ok THEN [consumeWrites EXCEPT ![token] = Bump(@)]
                            ELSE consumeWrites
        /\ lastCall' = [op |-> IF validate_proof_of_work_caught(active_tokens, solution, token)
                               THEN "pow_caught"
                               ELSE IF validate_proof_of_work_mismatch(active_tokens, solution, token)
                               THEN "pow_mismatch" ELSE "pow",
                        result |-> ok]
        /\ UNCHANGED <<now, next_token, gateVars, fpVars, otherVars>>

(* the periodic sweep, cleanup_expired_tokens() *)
Sweep ==
    /\ active_tokens' = cleanup_expired_tokens(active_tokens, now)
    /\ lastCall' = [NoCall EXCEPT !.op = "sweep"]
    /\ UNCHANGED <<now, next_token, consumeWrites, gateVars, fpVars, otherVars>>

(* time passes *)
Tick(d) ==
    /\ TickCount(now + d) <= MaxTicks
    /\ now' = now + d
    /\ lastCall' = NoCall
    /\ UNCHANGED <<active_tokens, next_token, consumeWrites, gateVars, fpVars, otherVars>>

---------------------------------------------------------------------------
(* The rate limiter, rate_limiting.py:8-52, for one caller and endpoint.   *)
(* count is the number of rows of rate_limits inside the window; dbFails   *)
(* says that a storage operation raised before the row was inserted.       *)

(* A call of check_rate_limit runs statement by statement, each await a    *)
(* point where another call may run.  Its frame holds the statement it is  *)
(* at, its connection, the count it read, the value it returns and the     *)
(* statement that raised.                                                  *)
RateCallers == {"r1", "r2"}

IdleFrame ==
    [pc |-> "idle", connection |-> "none", current_count |-> 0,
     result |-> "pending", failed |-> "none"]

(* RateLimiter.check_rate_limit: the value returned *)
check_rate_limit(count, max_requests, dbFails) ==
    IF dbFails THEN TRUE
    ELSE IF count # 0 /\ count >= max_requests THEN FALSE
    ELSE TRUE

(* RateLimiter.check_rate_limit: the rows after the call *)
check_rate_limit_rows(count, max_requests, dbFails) ==
    IF dbFails THEN count
    ELSE IF count # 0 /\ count >= max_requests THEN count
    ELSE count + 1

(* verify_request_signature, security.py:95-111.  encrypted_payload is a   *)
(* dict: a sequence of <<key, value>> pairs in insertion order, with       *)
(* distinct keys.                                                          *)
Minute(t) == t \div SECONDS_PER_MINUTE

(* the order of the keys as strings *)
KeyRank(k) ==
    CASE k = "ciphertext" -> 1 [] k = "clientPublicKey" -> 2 [] k = "nonce" -> 3

(* json.dumps without sort_keys: the pairs in insertion order *)
json_dumps_unsorted(payload) == payload

(* json.dumps(encrypted_payload, sort_keys=True) *)
json_dumps_sorted(payload) ==
    SortSeq(payload, LAMBDA a, b : KeyRank(a[1]) < KeyRank(b[1]))

(* the message of line 99: serialization, token and minute concatenated;   *)
(* its SHA-256 is abstracted to the message itself (no collisions)         *)
SignatureOf(payload, token, minute) ==
    <<json_dumps_sorted(payload)>> \o token \o PyStr(minute)

(* verify_request_signature accepting the signature of any earlier minute *)
verify_request_signature_any_minute(encrypted_payload, signature, token, t) ==
    \E m \in 0..Minute(t) : signature = SignatureOf(encrypted_payload, token, m)

verify_request_signature(encrypted_payload, signature, token, t) ==
    signature = SignatureOf(encrypted_payload, token, Minute(t))

PayloadA ==
    << <<"ciphertext", "c1">>, <<"nonce", "n1">>, <<"clientPublicKey", "k1">> >>
PayloadAReordered ==
    << <<"nonce", "n1">>, <<"clientPublicKey", "k1">>, <<"ciphertext", "c1">> >>
PayloadB ==
    << <<"ciphertext", "c2">>, <<"nonce", "n1">>, <<"clientPublicKey", "k1">> >>
Payloads == {PayloadA, PayloadAReordered, PayloadB}

---------------------------------------------------------------------------
(* SecureCrypto, crypto.py.  Keys are abstract names; the public half of   *)
(* private key k is <<"pub", k>>.  A log line records its level, its text  *)
(* and the private key material its text contains ("none" when it          *)
(* contains none).                                                         *)

EnvKeys == {"none", "k1", "notbase64"}
GeneratedKeys == {"g1", "g2"}

LogLine(level, text, key) == [level |-> level, text |-> text, key |-> key]

(* SecureCrypto._initialize_keys, crypto.py:21-49 *)
initialize_keys(env, generated) ==
    IF env = "notbase64"
    THEN [key |-> "unset", raised |-> TRUE,
          log |-> {LogLine("error", "Failed to initialize cryptographic keys", "none")}]
    ELSE IF env # "none"
    THEN [key |-> env, raised |-> FALSE,
          log |-> {LogLine("info", "Loaded existing server private key from environment",
                           "none")}]
    ELSE [key |-> generated, raised |-> FALSE,
          log |-> {LogLine("info", "Generated new server key pair", "none"),
                   LogLine("warning",
                           "Save this private key to environment: SERVER_PRIVATE_KEY_B64=",
                           generated)}]

(* X25519: public_key(), and exchange, which is symmetric in the two pairs *)
public_key(private) == <<"pub", private>>
exchange(private, peer_public) == {private, peer_public[2]}

(* HKDF-SHA256, 32 bytes, salt of 32 zero bytes, info newsletter-encryption *)
hkdf_derive(shared_secret) == <<"hkdf", shared_secret>>

(* ChaCha20Poly1305(key).encrypt(nonce, plaintext, None), as the client    *)
(* computes it; intact is false when the bytes were changed afterwards     *)
aead_encrypt(key, nonce, plaintext) ==
    [key |-> key, nonce |-> nonce, plaintext |-> plaintext, intact |-> TRUE]

(* str(e) of the exception each step of decrypt_payload can raise *)
ExceptionText(cause) ==
    CASE cause = "KeyError"        -> "'field'"
      [] cause = "binascii.Error"  -> "Incorrect padding"
      [] cause = "PublicKeyLength" -> "An X25519 public key is 32 bytes long"
      [] cause = "NonceLength"     -> "Nonce must be 12 bytes"
      [] cause = "InvalidTag"      -> ""
      [] cause = "JSONDecodeError" -> "Expecting value: line 1 column 1 (char 0)"

(* base64.b64decode(encrypted_data[field]): the step that fails, or "ok" *)
FieldFailure(field) ==
    IF field.form = "missing" THEN "KeyError"
    ELSE IF field.form = "badb64" THEN "binascii.Error"
    ELSE "ok"

(* the first step of crypto.py:67-91 that raises, or "ok" *)
DecryptFailure(private, d) ==
    IF FieldFailure(d.ciphertext) # "ok" THEN FieldFailure(d.ciphertext)
    ELSE IF FieldFailure(d.nonce) # "ok" THEN FieldFailure(d.nonce)
    ELSE IF FieldFailure(d.clientPublicKey) # "ok" THEN FieldFailure(d.clientPublicKey)
    ELSE IF ~d.clientPublicKey.len_ok THEN "PublicKeyLength"
    ELSE IF ~d.nonce.len_ok THEN "NonceLength"
    ELSE IF \/ ~d.ciphertext.len_ok
            \/ ~d.ciphertext.bytes.intact
            \/ d.ciphertext.bytes.key
                  # hkdf_derive(exchange(private, d.clientPublicKey.bytes))
            \/ d.ciphertext.bytes.nonce # d.nonce.bytes THEN "InvalidTag"
    ELSE IF d.ciphertext.bytes.plaintext = "notjson" THEN "JSONDecodeError"
    ELSE "ok"

(* SecureCrypto.decrypt_payload, crypto.py:63-98: the dict returned, or    *)
(* the ValueError raised with its message                                  *)
decrypt_payload(private, d) ==
    LET cause == DecryptFailure(private, d)
    IN  IF cause = "ok"
        THEN [ok |-> TRUE, value |-> d.ciphertext.bytes.plaintext,
              error |-> "none", detail |-> "none"]
        ELSE [ok |-> FALSE, value |-> "none",
              error |-> "Decryption failed: ", detail |-> ExceptionText(cause)]

(* no decrypt_payload call has returned yet *)
DecPending == [ok |-> FALSE, value |-> "none", error |-> "pending", detail |-> "none"]

(* the line decrypt_payload logs, crypto.py:93 and 97 *)
decrypt_payload_log(private, d) ==
    IF DecryptFailure(private, d) = "ok"
    THEN LogLine("info", "Successfully decrypted newsletter payload", "none")
    ELSE LogLine("error", "Payload decryption failed", "none")

---------------------------------------------------------------------------
(* NewsletterService.subscribe, service.py:12-93.  metadata is None or a   *)
(* dict; timestamp is the page-load time in milliseconds (absent when      *)
(* has_timestamp is false), interactions the number of recorded            *)
(* interactions (absent when has_interactions is false).  The table        *)
(* newsletter_subscribers maps an email to the status of its row.          *)

NoMetadata == [given |-> FALSE, has_timestamp |-> FALSE, timestamp |-> 0,
               has_interactions |-> FALSE, interactions |-> 0]

(* lines 26-30: the timing check raises ValueError("Submission too fast") *)
TooFast(metadata, t) ==
    /\ metadata.given
    /\ metadata.has_timestamp /\ metadata.timestamp # 0
    /\ t * 1000 - metadata.timestamp < 5000

(* lines 33-37: the check raises ValueError("Insufficient user interaction") *)
TooFewInteractions(metadata) ==
    /\ metadata.given
    /\ metadata.has_interactions /\ metadata.interactions # 0
    /\ metadata.interactions < 2

(* the value subscribe returns, or the ValueError it raises *)
subscribe(table, email, metadata, t) ==
    IF TooFast(metadata, t)
    THEN [ok |-> FALSE, status |-> "Submission too fast"]
    ELSE IF TooFewInteractions(metadata)
    THEN [ok |-> FALSE, status |-> "Insufficient user interaction"]
    ELSE IF email \in DOMAIN table
    THEN IF table[email] = "active"
         THEN [ok |-> TRUE, status |-> "already_subscribed"]
         ELSE [ok |-> TRUE, status |-> "reactivated"]
    ELSE [ok |-> TRUE, status |-> "subscribed"]

(* the table after the call: UPDATE of line 53, INSERT of line 63 *)
subscribe_table(table, email, metadata, t) ==
    IF TooFast(metadata, t) \/ TooFewInteractions(metadata) THEN table
    ELSE IF email \in DOMAIN table
    THEN IF table[email] = "active" THEN table
         ELSE [table EXCEPT ![email] = "active"]
    ELSE [x \in (DOMAIN table) \cup {email} |-> IF x = email THEN "pending" ELSE table[x]]

SubPending == [ok |-> FALSE, status |-> "pending"]

---------------------------------------------------------------------------
(* The submission gate of the design (section 5; its handler is not among *)
(* the sources): one step per state of an attempt                        *)

GateOrder ==
    <<"Received", "HeadersPresent", "RateOk", "TokenValid", "PowValid",
      "SignatureValid", "Decrypted", "Validated", "Forwarded">>

Index(st) == CHOOSE i \in 1..Len(GateOrder) : GateOrder[i] = st

(* the state after the check made in state st returned ok *)
AfterCheck(st, ok) == IF ok THEN GateOrder[Index(st) + 1] ELSE "Rejected"

(* the bookkeeping of a check made by handler h in state st *)
Advance(h, st, ok, code) ==
    /\ pc[h] = st
    /\ pc' = [pc EXCEPT ![h] = AfterCheck(st, ok)]
    /\ status' = [status EXCEPT ![h] = IF ok THEN (IF AfterCheck(st, ok) = "Forwarded" THEN 200 ELSE @)
                                        ELSE code]

Receive(h, token) ==
    /\ pc[h] = "Idle"
    /\ pc' = [pc EXCEPT ![h] = "Received"]
    /\ htok' = [htok EXCEPT ![h] = token]
    /\ lastCall' = NoCall
    /\ UNCHANGED <<registryVars, status, rate_count, accepted, fpVars, otherVars>>

(* (1) the four security headers are present *)
HeadersStep(h, present) ==
    /\ Advance(h, "Received", present, 400)
    /\ lastCall' = NoCall
    /\ UNCHANGED <<registryVars, htok, rate_count, accepted, fpVars, otherVars>>

(* (2) the rate limiter: 3 attempts per hour and caller *)
RateStep(h, dbFails) ==
    /\ Advance(h, "HeadersPresent",
               check_rate_limit(rate_count, SUBSCRIBE_MAX_REQUESTS, dbFails), 429)
    /\ rate_count' = check_rate_limit_rows(rate_count, SUBSCRIBE_MAX_REQUESTS, dbFails)
    /\ lastCall' = NoCall
    /\ UNCHANGED <<registryVars, htok, accepted, fpVars, otherVars>>

(* (3) verify_token *)
VerifyStep(h, fingerprint) ==
    /\ Advance(h, "RateOk",
               verify_security_token(active_tokens, htok[h], fingerprint, now), 403)
    /\ active_tokens' = verify_security_token_registry(active_tokens, htok[h], now)
    /\ lastCall' = NoCall
    /\ UNCHANGED <<now, next_token, consumeWrites, htok, rate_count, accepted, fpVars, otherVars>>

(* (4) validate_proof_of_work *)
PowStep(h, solution) ==
    LET ok == validate_proof_of_work(active_tokens, solution, htok[h])
    IN  /\ Advance(h, "TokenValid", ok, 403)
        /\ active_tokens' = validate_proof_of_work_registry(active_tokens, solution, htok[h])
        /\ consumeWrites' = IF ok THEN [consumeWrites EXCEPT ![htok[h]] = Bump(@)]
                            ELSE consumeWrites
        /\ lastCall' = NoCall
        /\ UNCHANGED <<now, next_token, htok, rate_count, accepted, fpVars, otherVars>>

(* the signature step answering a failure with a status of its own *)
SigStep_own_status(h, payload, signature) ==
    /\ Advance(h, "PowValid",
               verify_request_signature(payload, signature, htok[h], now), 401)
    /\ lastCall' = NoCall
    /\ UNCHANGED <<registryVars, htok, rate_count, accepted, fpVars, otherVars>>

(* (5) verify_request_signature *)
SigStep(h, payload, signature) ==
    /\ Advance(h, "PowValid",
               verify_request_signature(payload, signature, htok[h], now), 403)
    /\ lastCall' = NoCall
    /\ UNCHANGED <<registryVars, htok, rate_count, accepted, fpVars, otherVars>>

(* the decryption step giving the challenge back when it fails *)
DecryptStep_releasing(h, ok) ==
    /\ Advance(h, "SignatureValid", ok, 500)
    /\ active_tokens' = IF ~ok /\ htok[h] \in DOMAIN active_tokens
                        THEN [active_tokens EXCEPT ![htok[h]].used = FALSE]
                        ELSE active_tokens
    /\ lastCall' = NoCall
    /\ UNCHANGED <<now, next_token, consumeWrites, htok, rate_count, accepted,
                   fpVars, otherVars>>

(* (6) derive_shared_key and decrypt *)
DecryptStep(h, ok) ==
    /\ Advance(h, "SignatureValid", ok, 500)
    /\ lastCall' = NoCall
    /\ UNCHANGED <<registryVars, htok, rate_count, accepted, fpVars, otherVars>>

(* (7) validation of the decrypted fields *)
ValidateStep(h, ok) ==
    /\ Advance(h, "Decrypted", ok, 400)
    /\ lastCall' = NoCall
    /\ UNCHANGED <<registryVars, htok, rate_count, accepted, fpVars, otherVars>>

(* (8) forwarding to the subscription collaborator; 200 on acceptance *)
ForwardStep(h, ok) ==
    /\ Advance(h, "Validated", ok, 500)
    /\ accepted' = IF ok THEN accepted \cup {htok[h]} ELSE accepted
    /\ lastCall' = NoCall
    /\ UNCHANGED <<registryVars, htok, rate_count, fpVars, otherVars>>

(* the response is sent and the handler is free for the next request *)
Respond(h) ==
    /\ pc[h] \in {"Forwarded", "Rejected"}
    /\ pc' = [pc EXCEPT ![h] = "Idle"]
    /\ htok' = [htok EXCEPT ![h] = UnknownToken]
    /\ status' = [status EXCEPT ![h] = 0]
    /\ lastCall' = NoCall
    /\ UNCHANGED <<registryVars, rate_count, accepted, fpVars, otherVars>>

Signatures(token) ==
    {SignatureOf(p, t, m) : p \in Payloads, t \in {token, UnknownToken},
                            m \in {Minute(now), Minute(now) - 1}}

---------------------------------------------------------------------------
(* The parts of the state a specification leaves alone *)
RegistryIdle ==
    /\ active_tokens = EmptyRegistry
    /\ now = 0
    /\ next_token = 1
    /\ consumeWrites = [t \in Tokens |-> 0]
    /\ lastCall = NoCall

GateIdle ==
    /\ pc = [h \in Handlers |-> "Idle"]
    /\ htok = [h \in Handlers |-> UnknownToken]
    /\ status = [h \in Handlers |-> 0]
    /\ rate_count = 0
    /\ accepted = {}

FpIdle == fpArg = <<>> /\ fpRes = "pending"

SigIdle == sigArg = "none" /\ sigRes = "pending"

CryptoIdle ==
    /\ env_key = "none"
    /\ server_private_key = "unset"
    /\ log = {}
    /\ decArg = "none"
    /\ decRes = DecPending

StoreIdle ==
    /\ subscribers = [e \in {} |-> e]
    /\ subArg = "none"
    /\ subRes = SubPending

RateIdle == rl_calls = [c \in RateCallers |-> IdleFrame]

Init ==
    /\ active_tokens = EmptyRegistry
    /\ now = 0
    /\ next_token = 1
    /\ consumeWrites = [t \in Tokens |-> 0]
    /\ lastCall = NoCall
    /\ pc = [h \in Handlers |-> "Idle"]
    /\ htok = [h \in Handlers |-> UnknownToken]
    /\ status = [h \in Handlers |-> 0]
    /\ rate_count = 0
    /\ accepted = {}
    /\ fpArg = <<>>
    /\ fpRes = "pending"
    /\ SigIdle /\ CryptoIdle /\ StoreIdle /\ RateIdle

(* The registry's operations, called directly in any order *)
NextFn ==
    \/ \E fp \in IssueFps : issue(fp, MaxTokens)
    \/ \E t \in TokenArgs, fp \in VerifyFps : CallVerifyToken(t, fp)
    \/ \E s \in Solutions, t \in TokenArgs : CallValidatePow(s, t)
    \/ Sweep
    \/ \E d \in FnTickSteps : Tick(d)

SpecFn == Init /\ [][NextFn]_vars


(* Request handlers H running the gate, with issue, sweep and the clock *)
GateNext(H) ==
    \/ \E fp \in IssueFps : issue(fp, GateMaxTokens)
    \/ Sweep
    \/ \E d \in TickSteps : Tick(d)
    \/ \E h \in H, t \in TokenArgs : Receive(h, t)
    \/ \E h \in H, b \in BOOLEAN : HeadersStep(h, b)
    \/ \E h \in H, b \in BOOLEAN : RateStep(h, b)
    \/ \E h \in H, fp \in VerifyFps : VerifyStep(h, fp)
    \/ \E h \in H, s \in Solutions : PowStep(h, s)
    \/ \E h \in H, p \in Payloads :
          \E sig \in Signatures(htok[h]) : SigStep(h, p, sig)
    \/ \E h \in H, b \in BOOLEAN : DecryptStep(h, b)
    \/ \E h \in H, b \in BOOLEAN : ValidateStep(h, b)
    \/ \E h \in H, b \in BOOLEAN : ForwardStep(h, b)
    \/ \E h \in H : Respond(h)

(* One handler: requests arrive one after the other *)
Next == GateNext({"h1"})
Spec == Init /\ [][Next]_vars

(* Two handlers racing *)
NextRace == GateNext(Handlers)
SpecRace == Init /\ [][NextRace]_vars

---------------------------------------------------------------------------
(* validate_fingerprint applied to one input *)

FpAlphabet == {"a", "F", "0", "9", "g", "+", "-", " ", "_", "x"}
FpHeads ==
    {<<>>} \cup {<<c>> : c \in FpAlphabet}
           \cup {<<c, d>> : c \in FpAlphabet, d \in FpAlphabet}
FpTails == {<<>>, <<" ">>, <<"_">>, <<"g">>}
FpLengths == {FINGERPRINT_LEN - 1, FINGERPRINT_LEN, FINGERPRINT_LEN + 1}
FpInputs == {Build(h, n, t) : h \in FpHeads, n \in FpLengths, t \in FpTails}

InitFp ==
    /\ active_tokens = EmptyRegistry
    /\ now = 0
    /\ next_token = 1
    /\ consumeWrites = [t \in Tokens |-> 0]
    /\ lastCall = NoCall
    /\ pc = [h \in Handlers |-> "Idle"]
    /\ htok = [h \in Handlers |-> UnknownToken]
    /\ status = [h \in Handlers |-> 0]
    /\ rate_count = 0
    /\ accepted = {}
    /\ fpArg \in FpInputs
    /\ fpRes = "pending"
    /\ SigIdle /\ CryptoIdle /\ StoreIdle /\ RateIdle

CallValidateFingerprint ==
    /\ fpRes = "pending"
    /\ fpRes' = IF validate_fingerprint(fpArg) THEN "True" ELSE "False"
    /\ UNCHANGED <<registryVars, lastCall, gateVars, fpArg, otherVars>>

SpecFp == InitFp /\ [][CallValidateFingerprint]_vars

---------------------------------------------------------------------------
(* verify_request_signature applied to one request.  The client signed    *)
(* signedPayload for signedToken at time signedAt; the server is handed    *)
(* that signature with payload and token, at any later time.               *)

SignedAt == {0, 30, 60}
SigInputs ==
    [payload : Payloads, token : TokenArgs,
     signedPayload : Payloads, signedToken : TokenArgs, signedAt : SignedAt]

(* the X-Request-Signature header of the request *)
SignatureHeader(arg) ==
    SignatureOf(arg.signedPayload, arg.signedToken, Minute(arg.signedAt))

InitSig ==
    /\ RegistryIdle /\ GateIdle /\ FpIdle /\ CryptoIdle /\ StoreIdle /\ RateIdle
    /\ sigArg \in SigInputs
    /\ sigRes = "pending"

CallVerifySignature ==
    /\ now >= sigArg.signedAt
    /\ sigRes' = IF verify_request_signature(sigArg.payload, SignatureHeader(sigArg),
                                             sigArg.token, now)
                 THEN "True" ELSE "False"
    /\ UNCHANGED <<registryVars, lastCall, gateVars, fpVars, sigArg, cryptoVars, storeVars, rateVars>>

(* time passes between the signing and the verification *)
SigTick(d) ==
    /\ TickCount(now + d) <= MaxTicks
    /\ now' = now + d
    /\ sigRes' = "pending"
    /\ UNCHANGED <<active_tokens, next_token, consumeWrites, lastCall, gateVars,
                   fpVars, sigArg, cryptoVars, storeVars, rateVars>>

NextSig ==
    \/ CallVerifySignature
    \/ \E d \in TickSteps : SigTick(d)

SpecSig == InitSig /\ [][NextSig]_vars

---------------------------------------------------------------------------
(* Properties of verify_request_signature, checked under SpecSig *)

(* two dicts are equal: the same keys with the same values *)
SameDict(p, q) == {p[i] : i \in DOMAIN p} = {q[i] : i \in DOMAIN q}

(* the request carries the payload and the token its signature was made for *)
SignedAsSent ==
    SameDict(sigArg.payload, sigArg.signedPayload) /\ sigArg.token = sigArg.signedToken

(* C11: verify_request_signature returns true exactly when the signature   *)
(* is the hash of the key-sorted serialization of the payload, the token   *)
(* and the current minute: the signature of another payload or of another  *)
(* token is rejected, that of the same dict in another key order accepted. *)
C11_SignatureIff ==
    sigRes # "pending" =>
        (sigRes = "True" <=> /\ SignedAsSent
                             /\ now \div 60 = sigArg.signedAt \div 60)

(* C11 witness: a signature made over the same dict with its keys in       *)
(* another order was accepted                                              *)
C11_Witness ==
    /\ sigRes = "True"
    /\ sigArg.payload # sigArg.signedPayload

(* C12: a signature made at time t is accepted at time t2 only inside the  *)
(* same 60-second-aligned window; after the next minute boundary the same  *)
(* request is rejected.                                                    *)
C12_SignatureWindow ==
    (sigRes # "pending" /\ SignedAsSent) =>
        (sigRes = "False" <=> now \div 60 # sigArg.signedAt \div 60)

(* C12 witness: signed at second 30, rejected at second 60 *)
C12_Witness ==
    /\ sigRes = "False"
    /\ SignedAsSent
    /\ sigArg.signedAt = 30
    /\ now = 60

---------------------------------------------------------------------------
(* Properties of the registry's operations, checked under SpecFn *)

Present(t) == t \in DOMAIN active_tokens
Expired(t) == Present(t) /\ now > active_tokens[t].expires_at
Live(t) == Present(t) /\ now <= active_tokens[t].expires_at

(* C1: no double-spend.  When the challenge of a token already has        *)
(* used = true, a call validate_proof_of_work(solution, token) returns     *)
(* false, whatever the solution.                                           *)
C1_NoDoubleSpend ==
    [][\A s \in Solutions, t \in TokenArgs :
          (Present(t) /\ active_tokens[t].used /\ CallValidatePow(s, t))
              => lastCall'.result = FALSE]_vars

(* C3: no token is usable past its expiry.  When now > expires_at, a call  *)
(* validate_proof_of_work(solution, token) returns false and leaves the    *)
(* challenge unconsumed, whether or not the sweep has run.                 *)
C3_NoUseAfterExpiry ==
    [][\A s \in Solutions, t \in TokenArgs :
          (Expired(t) /\ CallValidatePow(s, t))
              => /\ lastCall'.result = FALSE
                 /\ active_tokens' = active_tokens]_vars

(* C4: challenge lifecycle.  A token maps to one challenge; its used flag  *)
(* is written at most once, never goes back to false while the challenge   *)
(* is in the registry, and once it is true verify_security_token returns   *)
(* false for the token.                                                    *)
C4_ConsumedExactlyOnce ==
    /\ [](\A t \in Tokens : consumeWrites[t] <= 1)
    /\ [][\A t \in Tokens :
            (Present(t) /\ active_tokens[t].used)
               => /\ (t \in DOMAIN active_tokens' => active_tokens'[t].used)
                  /\ \A fp \in VerifyFps :
                        CallVerifyToken(t, fp) => lastCall'.result = FALSE]_vars

(* C7: verify_security_token(token, fingerprint) returns true exactly when *)
(* the token is in the registry, now <= expires_at, the fingerprint equals *)
(* the one recorded at issuance, and used is false.                        *)
C7_VerifyTokenIff ==
    [][\A t \in TokenArgs, fp \in VerifyFps :
          CallVerifyToken(t, fp)
              => (lastCall'.result = TRUE
                    <=> /\ Present(t)
                        /\ now <= active_tokens[t].expires_at
                        /\ fp = active_tokens[t].fingerprint
                        /\ ~active_tokens[t].used)]_vars

(* C7 witness: a verify_security_token call has just returned true *)
C7_Witness == lastCall = [op |-> "verify", result |-> TRUE]

(* C8: validate_proof_of_work(solution, token) succeeds exactly when the   *)
(* token has a live challenge (in the registry, not past expires_at) and   *)
(* the digest of puzzle data and nonce starts with the target; on success  *)
(* the challenge has used = true.                                          *)
C8_PowIff ==
    [][\A s \in Solutions, t \in TokenArgs :
          CallValidatePow(s, t)
              => /\ lastCall'.result = TRUE
                       <=> /\ Live(t)
                           /\ PyIntValid(s, 10)
                           /\ StartsWith(sha256_hexdigest(active_tokens[t].challenge.data,
                                                          PyStr(PyIntValue(s))),
                                         active_tokens[t].challenge.target)
                 /\ lastCall'.result = TRUE => active_tokens'[t].used]_vars

(* a fingerprint that is not exactly 64 hexadecimal digits *)
Malformed(fp) ==
    Len(fp) # FINGERPRINT_LEN \/ \E i \in 1..Len(fp) : fp[i] \notin HexDigits

(* C10: issue rejects a malformed fingerprint (wrong length or a non-hex   *)
(* character): no token is returned and the registry is unchanged.         *)
C10_IssueRejectsMalformed ==
    [][\A fp \in IssueFps :
          (Malformed(fp) /\ issue(fp, MaxTokens))
              => /\ lastCall'.result = FALSE
                 /\ active_tokens' = active_tokens]_vars

---------------------------------------------------------------------------
(* Properties of validate_fingerprint, checked under SpecFp *)

(* C9: validate_fingerprint(fingerprint) returns true exactly when the     *)
(* string has 64 characters and each of them is a hexadecimal digit.       *)
C9_FingerprintIff ==
    fpRes # "pending" => (fpRes = "True" <=> ~Malformed(fpArg))

---------------------------------------------------------------------------
(* Properties of the submission gate *)

PastPow == {"PowValid", "SignatureValid", "Decrypted", "Validated", "Forwarded"}
InFlight == {"TokenValid", "PowValid", "SignatureValid", "Decrypted", "Validated"}

(* C2: two handlers racing one token never both get past the proof-of-work *)
(* step.  Checked under SpecRace.                                          *)
C2_RaceAtMostOneWinner ==
    \A t \in Tokens :
        Cardinality({h \in Handlers : htok[h] = t /\ pc[h] \in PastPow}) <= 1

(* C5: end-to-end replay.  A submission whose token has already been       *)
(* accepted is rejected with 403 at verify_token and is never forwarded:   *)
(* no request carrying an accepted token is past verify_token, and the     *)
(* accepted set does not change when it is rejected.                       *)
C5_ReplayRejected ==
    /\ [](\A h \in {"h1"} : pc[h] \in InFlight => htok[h] \notin accepted)
    /\ [][\A h \in {"h1"} :
            (pc[h] = "RateOk" /\ htok[h] \in accepted /\ pc'[h] # pc[h])
               => /\ pc'[h] = "Rejected"
                  /\ status'[h] = 403
                  /\ accepted' = accepted]_vars

(* C5 witness: the replay of an accepted, still unexpired token was        *)
(* rejected with 403                                                       *)
C5_Witness ==
    /\ pc["h1"] = "Rejected"
    /\ status["h1"] = 403
    /\ htok["h1"] \in accepted
    /\ Live(htok["h1"])
    /\ active_tokens[htok["h1"]].used

Failure == {400, 403, 429, 500}

(* this step turns the used flag of t's challenge from false to true *)
Consumes(t) ==
    /\ Present(t)
    /\ ~active_tokens[t].used
    /\ t \in DOMAIN active_tokens'
    /\ active_tokens'[t].used

(* C6: the gate is sequential and short-circuits.  A handler moves only to *)
(* the next state of the order or to Rejected; once a check has failed the *)
(* attempt is Rejected and makes no further step; only the proof-of-work   *)
(* step of an attempt that passed verify_token consumes a challenge; only  *)
(* the forwarding step of a validated attempt forwards.                    *)
C6_SequentialShortCircuit ==
    /\ [](\A h \in Handlers : status[h] \in Failure => pc[h] = "Rejected")
    /\ [][\A h \in Handlers :
            pc'[h] # pc[h] =>
                  \/ pc[h] = "Idle" /\ pc'[h] = "Received"
                  \/ /\ pc[h] \in {"Forwarded", "Rejected"}
                     /\ pc'[h] = "Idle"
                     /\ UNCHANGED <<active_tokens, consumeWrites, rate_count, accepted>>
                  \/ /\ pc[h] \notin {"Idle", "Forwarded", "Rejected"}
                     /\ pc'[h] \in {GateOrder[Index(pc[h]) + 1], "Rejected"}]_vars
    /\ [][/\ (\E t \in Tokens : Consumes(t)) =>
                \E h \in Handlers : pc[h] = "TokenValid" /\ pc'[h] = "PowValid"
          /\ accepted' # accepted =>
                \E h \in Handlers : pc[h] = "Validated" /\ pc'[h] = "Forwarded"]_vars

(* C6 witness: an attempt was rejected at the signature check, after its   *)
(* proof of work had consumed the challenge                                *)
C6_Witness ==
    /\ pc["h1"] = "Rejected"
    /\ status["h1"] = 403
    /\ Present(htok["h1"])
    /\ active_tokens[htok["h1"]].used
    /\ htok["h1"] \notin accepted

(* C13: once the caller has SUBSCRIBE_MAX_REQUESTS allowed attempts inside  *)
(* the window, the next attempt is denied by the rate limiter: it is        *)
(* rejected with 429, whatever its credentials.                             *)
C13_RateLimited ==
    [][\A h \in Handlers :
          (/\ pc[h] = "HeadersPresent"
           /\ rate_count >= SUBSCRIBE_MAX_REQUESTS
           /\ pc'[h] # pc[h])
              => (pc'[h] = "Rejected" /\ status'[h] = 429)]_vars

---------------------------------------------------------------------------
(* SecureCrypto: key initialisation at import, then one decrypt_payload    *)
(* call.  A field of encrypted_data is missing, not base64, or bytes; its  *)
(* bytes have the length the primitive wants (32 for the key, 12 for the   *)
(* nonce, at least the 16 of the tag for the ciphertext) or not.           *)

Field(form, len_ok, bytes) == [form |-> form, len_ok |-> len_ok, bytes |-> bytes]

FieldForms(values, filler) ==
    {Field("missing", FALSE, filler), Field("badb64", FALSE, filler),
     Field("bytes", FALSE, filler)}
        \cup {Field("bytes", TRUE, v) : v \in values}

ServerKeys == (EnvKeys \ {"none", "notbase64"}) \cup GeneratedKeys
ClientKeys == {"c1", "c2"}
Nonces == {"n1", "n2"}
Plaintexts == {"json", "notjson"}

(* what a client holding c1 sends for a server key it was given *)
ClientCiphertexts ==
    {[aead_encrypt(hkdf_derive(exchange("c1", public_key(sk))), "n1", pt)
         EXCEPT !.intact = i] : sk \in ServerKeys, pt \in Plaintexts, i \in BOOLEAN}

DecInputs ==
    [ciphertext : FieldForms(ClientCiphertexts, aead_encrypt("none", "none", "none")),
     nonce : FieldForms(Nonces, "none"),
     clientPublicKey : FieldForms({public_key(c) : c \in ClientKeys}, public_key("none"))]

InitCrypto ==
    /\ RegistryIdle /\ GateIdle /\ FpIdle /\ SigIdle /\ StoreIdle /\ RateIdle
    /\ env_key \in EnvKeys
    /\ server_private_key = "unset"
    /\ log = {}
    /\ decArg \in DecInputs
    /\ decRes = DecPending

(* crypto_service = SecureCrypto(), crypto.py:101 *)
InitializeKeys(generated) ==
    /\ server_private_key = "unset"
    /\ log = {}
    /\ server_private_key' = initialize_keys(env_key, generated).key
    /\ log' = log \cup initialize_keys(env_key, generated).log
    /\ UNCHANGED <<registryVars, lastCall, gateVars, fpVars, sigVars, env_key,
                   decArg, decRes, storeVars, rateVars>>

CallDecryptPayload ==
    /\ server_private_key # "unset"
    /\ decRes = DecPending
    /\ decRes' = decrypt_payload(server_private_key, decArg)
    /\ log' = log \cup {decrypt_payload_log(server_private_key, decArg)}
    /\ UNCHANGED <<registryVars, lastCall, gateVars, fpVars, sigVars, env_key,
                   server_private_key, decArg, storeVars, rateVars>>

NextCrypto ==
    \/ \E g \in GeneratedKeys : InitializeKeys(g)
    \/ CallDecryptPayload

SpecCrypto == InitCrypto /\ [][NextCrypto]_vars

---------------------------------------------------------------------------
(* Properties of SecureCrypto, checked under SpecCrypto *)

(* C14: the private half of the server keypair is never written to the     *)
(* log: no log line contains private key material, also when the key is    *)
(* generated because none was supplied.                                    *)
C14_PrivateKeyNeverLogged ==
    \A line \in log : line.key = "none"

(* C16: a decryption failure is one undifferentiated error: the error      *)
(* raised by decrypt_payload carries no detail of the step that failed.    *)
C16_DecryptErrorUniform ==
    (decRes # DecPending /\ ~decRes.ok) => decRes.detail = ""

---------------------------------------------------------------------------
(* C15: the response does not tell security failures apart.  An attempt    *)
(* that fails verify_security_token (token absent, expired, fingerprint    *)
(* mismatch, used), validate_proof_of_work or verify_request_signature is  *)
(* answered with the same status, 403.                                     *)
C15_UniformSecurityFailure ==
    [][\A h \in Handlers :
          (pc[h] \in {"RateOk", "TokenValid", "PowValid"} /\ pc'[h] = "Rejected")
              => status'[h] = 403]_vars

(* C15 witness: an attempt whose token had expired and was evicted is      *)
(* answered 403                                                            *)
C15_Witness ==
    /\ pc["h1"] = "Rejected"
    /\ status["h1"] = 403
    /\ htok["h1"] = Token(1)
    /\ next_token > 1
    /\ ~Present(Token(1))

---------------------------------------------------------------------------
(* Calls of NewsletterService.subscribe on decrypted submissions.  An      *)
(* email is a sequence of characters; the honeypot field of the form is    *)
(* not among the parameters of subscribe (service.py:12-20).               *)

Emails == {<<"a", "@", "x">>, <<"b", "@", "x">>, <<"a", "x">>}

Honeypots == {"", "filled"}

(* time.time() at the call, service.py:27 *)
StoreClock == {10}

PageLoadTimestamps == {0, 4000, 9000}

InteractionCounts == 0..2

Metadatas ==
    {NoMetadata}
    \cup [given : {TRUE}, has_timestamp : {TRUE}, timestamp : PageLoadTimestamps,
          has_interactions : BOOLEAN, interactions : InteractionCounts]
    \cup [given : {TRUE}, has_timestamp : {FALSE}, timestamp : {0},
          has_interactions : BOOLEAN, interactions : InteractionCounts]

Submissions ==
    {s \in [email : Emails, honeypot : Honeypots, metadata : Metadatas] :
        s.metadata.has_interactions \/ s.metadata.interactions = 0}

InitStore ==
    /\ active_tokens = EmptyRegistry
    /\ now \in StoreClock
    /\ next_token = 1
    /\ consumeWrites = [t \in Tokens |-> 0]
    /\ lastCall = NoCall
    /\ GateIdle /\ FpIdle /\ SigIdle /\ CryptoIdle /\ StoreIdle /\ RateIdle

CallSubscribe(s) ==
    /\ subArg' = s
    /\ subRes' = subscribe(subscribers, s.email, s.metadata, now)
    /\ subscribers' = subscribe_table(subscribers, s.email, s.metadata, now)
    /\ UNCHANGED <<registryVars, lastCall, gateVars, fpVars, sigVars, cryptoVars, rateVars>>

NextStore == \E s \in Submissions : CallSubscribe(s)

SpecStore == InitStore /\ [][NextStore]_vars

Count(seq, c) == Cardinality({i \in 1..Len(seq) : seq[i] = c})

(* an address with one "@" between a non-empty local part and domain *)
EmailSyntaxOk(email) ==
    /\ Count(email, "@") = 1
    /\ email[1] # "@"
    /\ email[Len(email)] # "@"

(* the four reasons for which a decrypted submission fails validation *)
FailsValidation(s, t) ==
    \/ ~EmailSyntaxOk(s.email)
    \/ s.honeypot # ""
    \/ ~s.metadata.has_interactions
    \/ s.metadata.interactions < 2
    \/ (s.metadata.has_timestamp /\ t * 1000 - s.metadata.timestamp < 5000)

(* C17: a decrypted submission that fails field validation (invalid email  *)
(* syntax, a non-empty honeypot field, fewer than two interaction signals  *)
(* or none at all, less than five seconds since page load) is never        *)
(* stored: subscribe makes no insert or update on the subscriber table.    *)
C17_InvalidNeverStored ==
    [][\A s \in Submissions :
          (FailsValidation(s, now) /\ CallSubscribe(s))
              => subscribers' = subscribers]_vars

(* C18: duplicates are idempotent: after subscribe has accepted a          *)
(* submission, forwarding the same submission again would leave the        *)
(* subscriber table as the first call left it (one row, same status).      *)
C18_DuplicateIdempotent ==
    [][\A s \in Submissions :
          (~FailsValidation(s, now) /\ CallSubscribe(s) /\ subRes'.ok)
              => subscribe_table(subscribers', s.email, s.metadata, now)
                     = subscribers']_vars

---------------------------------------------------------------------------
(* C19: verify_security_token is a read-time gate.  A call never changes   *)
(* the used flag of any challenge; the only change it may make to the      *)
(* registry is deleting the entry it looked up, and only when that entry   *)
(* is past expires_at; every other entry is unchanged.                     *)
C19_VerifyReadOnly ==
    [][\A t \in TokenArgs, fp \in VerifyFps :
          CallVerifyToken(t, fp) =>
              /\ DOMAIN active_tokens' \subseteq DOMAIN active_tokens
              /\ \A k \in DOMAIN active_tokens' :
                     active_tokens'[k].used = active_tokens[k].used
              /\ \A k \in DOMAIN active_tokens :
                     k # t => /\ k \in DOMAIN active_tokens'
                              /\ active_tokens'[k] = active_tokens[k]
              /\ active_tokens' # active_tokens =>
                     /\ Expired(t)
                     /\ active_tokens' = Del(active_tokens, t)]_vars

(* C19 witness: verify_security_token has failed, the expired first token  *)
(* is gone and the second token's consumed challenge is still in place     *)
C19_Witness ==
    /\ lastCall = [op |-> "verify", result |-> FALSE]
    /\ next_token > 2
    /\ ~Present(Token(1))
    /\ Present(Token(2))
    /\ active_tokens[Token(2)].used
    /\ now <= active_tokens[Token(2)].expires_at

---------------------------------------------------------------------------
(* C20: validate_proof_of_work fails closed on an unparseable solution.    *)
(* When solution is not the text of an integer the call returns False (it  *)
(* does not raise) and leaves the registry, the used flags included,       *)
(* as it was.                                                              *)
C20_PowFailsClosed ==
    [][\A s \in Solutions, t \in TokenArgs :
          (~PyIntValid(s, 10) /\ CallValidatePow(s, t))
              => /\ lastCall'.op \in {"pow", "pow_caught"}
                 /\ lastCall'.result = FALSE
                 /\ active_tokens' = active_tokens
                 /\ consumeWrites' = consumeWrites]_vars

(* C20 witness: the except clause has answered a call for the only token   *)
(* issued, whose challenge is still there and not used                     *)
C20_Witness ==
    /\ lastCall = [op |-> "pow_caught", result |-> FALSE]
    /\ next_token = 2
    /\ Present(Token(1))
    /\ ~active_tokens[Token(1)].used

---------------------------------------------------------------------------
(* verify_request_signature on arguments of any Python type,               *)
(* security.py:95-111.  A value is a record of its type and its content;   *)
(* the statements of the try block raise as CPython does.                  *)

PyVal(type, ascii, v) == [type |-> type, ascii |-> ascii, v |-> v]

(* json.dumps raises TypeError for a dict holding a value that is not a    *)
(* str, a number, a list or a dict (here: bytes)                           *)
json_serialisable(payload) ==
    \A k \in DOMAIN payload.v : payload.v[k][2].type = "str"

(* the try block, lines 97-107: the exception it raises ("none" if it      *)
(* completes) and the value it returns then                                *)
verify_request_signature_try(encrypted_payload, signature, token, t) ==
    IF ~json_serialisable(encrypted_payload)
    THEN [exception |-> "TypeError", value |-> FALSE]
    ELSE IF token.type = "str" /\ ~token.ascii
    THEN [exception |-> "UnicodeEncodeError", value |-> FALSE]
    ELSE IF signature.type # "str" \/ ~signature.ascii
    THEN [exception |-> "TypeError", value |-> FALSE]
    ELSE LET result == verify_request_signature(encrypted_payload.v, signature.v,
                                                token.v, t)
         IN  IF ~result /\ token.type # "str"
             THEN [exception |-> "TypeError", value |-> FALSE]
             ELSE [exception |-> "none", value |-> result]

ExceptionClasses == {"TypeError", "ValueError", "UnicodeEncodeError"}

(* a handler that catches ValueError and its subclasses only *)
ExceptionCaught_value_error_only(exception) ==
    exception \in {"ValueError", "UnicodeEncodeError"}

(* except Exception, line 109 *)
ExceptionCaught(exception) ==
    exception \in ExceptionClasses

(* what the caller gets: "True", "False", or the exception propagates *)
verify_request_signature_call(encrypted_payload, signature, token, t) ==
    LET body == verify_request_signature_try(encrypted_payload, signature, token, t)
    IN  IF body.exception = "none"
        THEN IF body.value THEN "True" ELSE "False"
        ELSE IF ExceptionCaught(body.exception) THEN "False"
        ELSE "raised"

TypedItems(payload, valueType) ==
    [k \in DOMAIN payload |->
        <<payload[k][1], PyVal(valueType, TRUE, payload[k][2])>>]

TypedPayloads ==
    {PyVal("dict", TRUE, TypedItems(PayloadA, "str")),
     PyVal("dict", TRUE, TypedItems(PayloadAReordered, "str")),
     PyVal("dict", TRUE, TypedItems(PayloadA, "bytes"))}

TypedTokens ==
    {PyVal("str", TRUE, Token(1)), PyVal("str", FALSE, Token(1)),
     PyVal("int", TRUE, Token(1)), PyVal("NoneType", TRUE, Token(0))}

(* the signature header: made by the client for this request at time 0,    *)
(* or something else                                                       *)
SignatureForms == {"signed", "other_str", "non_ascii_str", "bytes", "NoneType"}

TypedSignature(form, payload, token) ==
    CASE form = "signed" -> PyVal("str", TRUE, SignatureOf(payload.v, token.v, 0))
      [] form = "other_str" -> PyVal("str", TRUE, <<>>)
      [] form = "non_ascii_str" -> PyVal("str", FALSE, <<>>)
      [] form = "bytes" -> PyVal("bytes", TRUE, SignatureOf(payload.v, token.v, 0))
      [] form = "NoneType" -> PyVal("NoneType", TRUE, <<>>)

TypedSigInputs ==
    [payload : TypedPayloads, token : TypedTokens, form : SignatureForms]

InitSigTyped ==
    /\ RegistryIdle /\ GateIdle /\ FpIdle /\ CryptoIdle /\ StoreIdle /\ RateIdle
    /\ sigArg \in TypedSigInputs
    /\ sigRes = "pending"

CallVerifySignatureTyped ==
    /\ sigRes' = verify_request_signature_call(
                     sigArg.payload,
                     TypedSignature(sigArg.form, sigArg.payload, sigArg.token),
                     sigArg.token, now)
    /\ UNCHANGED <<registryVars, lastCall, gateVars, fpVars, sigArg, cryptoVars, storeVars, rateVars>>

NextSigTyped ==
    \/ CallVerifySignatureTyped
    \/ \E d \in TickSteps : SigTick(d)

SpecSigTyped == InitSigTyped /\ [][NextSigTyped]_vars

(* the call cannot complete its try block on these arguments *)
InternalError(arg) ==
    \/ ~json_serialisable(arg.payload)
    \/ arg.form \in {"non_ascii_str", "bytes", "NoneType"}
    \/ ~arg.token.ascii

(* C21: verify_request_signature never throws.  For every input, also a    *)
(* payload that cannot be serialised or a signature that is not a          *)
(* comparable string, the call returns a value, and it returns False when  *)
(* a statement inside it failed.                                           *)
C21_SignatureNeverThrows ==
    /\ sigRes # "raised"
    /\ (sigRes # "pending" /\ InternalError(sigArg)) => sigRes = "False"

(* C21 witness: the call has returned False for a payload with a bytes     *)
(* value and a signature that is None                                      *)
C21_Witness ==
    /\ sigRes = "False"
    /\ ~json_serialisable(sigArg.payload)
    /\ sigArg.form = "NoneType"

---------------------------------------------------------------------------
(* a token that generate_secure_token has returned *)
Issued(t) == t \in Tokens /\ t[2] < next_token

(* C22: the sweep does not race destructively with verification.  In every *)
(* interleaving of cleanup_expired_tokens with verify_security_token and   *)
(* validate_proof_of_work, a token whose expiry has passed, swept or not,  *)
(* is refused by both calls: they return False.                            *)
C22_SweepVerifyInterleaving ==
    [][\A t \in Tokens :
          (Issued(t) /\ ~Live(t)) =>
              /\ \A fp \in VerifyFps :
                     CallVerifyToken(t, fp) => lastCall'.result = FALSE
              /\ \A s \in Solutions :
                     CallValidatePow(s, t) => lastCall'.result = FALSE]_vars

---------------------------------------------------------------------------
(* Cancellation of a request: the transport drops the request while its    *)
(* handler is between two steps of the gate.  The handler makes no further *)
(* step; nothing is undone.  validate_proof_of_work has no await, so a     *)
(* cancellation cannot land inside it (security.py:69-93).                 *)

Cancellable ==
    {"Received", "HeadersPresent", "RateOk", "TokenValid", "PowValid",
     "SignatureValid", "Decrypted", "Validated"}

(* a cancellation that also writes the used flag of the request's token *)
Cancel_consuming(h) ==
    /\ pc[h] \in Cancellable
    /\ pc' = [pc EXCEPT ![h] = "Cancelled"]
    /\ active_tokens' = IF htok[h] \in DOMAIN active_tokens
                        THEN [active_tokens EXCEPT ![htok[h]].used = TRUE]
                        ELSE active_tokens
    /\ lastCall' = NoCall
    /\ UNCHANGED <<now, next_token, consumeWrites, htok, status, rate_count,
                   accepted, fpVars, otherVars>>

Cancel(h) ==
    /\ pc[h] \in Cancellable
    /\ pc' = [pc EXCEPT ![h] = "Cancelled"]
    /\ lastCall' = NoCall
    /\ UNCHANGED <<registryVars, htok, status, rate_count, accepted, fpVars, otherVars>>

NextCancel ==
    \/ GateNext({"h1"})
    \/ Cancel("h1")

SpecCancel == Init /\ [][NextCancel]_vars

(* the entry is what generate_secure_token stored, but for its used flag *)
AsIssuedOrConsumed(t) ==
    LET e == active_tokens[t]
    IN  [e EXCEPT !.used = FALSE]
            = generate_secure_token(EmptyRegistry, t, e.fingerprint, e.client_ip,
                                    e.created_at)[t]

(* C23: cancellation never leaves a challenge partially consumed.  Every   *)
(* entry of the registry is as it was issued or differs from that only by  *)
(* used = true; a cancellation changes nothing in the registry; and a      *)
(* request turns used to true only in the step in which its own            *)
(* proof-of-work check succeeds.                                           *)
C23_CancellationAtomic ==
    /\ [](\A t \in DOMAIN active_tokens : AsIssuedOrConsumed(t))
    /\ [][\A h \in Handlers :
            Cancel(h) => /\ active_tokens' = active_tokens
                         /\ consumeWrites' = consumeWrites]_vars
    /\ [][\A t \in Tokens :
            Consumes(t) =>
                \E h \in Handlers : /\ htok[h] = t
                                    /\ pc[h] = "TokenValid"
                                    /\ pc'[h] = "PowValid"]_vars

(* C23 witness: a request was cancelled after its proof-of-work check had  *)
(* consumed the challenge                                                  *)
C23_Witness ==
    /\ pc["h1"] = "Cancelled"
    /\ Present(htok["h1"])
    /\ active_tokens[htok["h1"]].used
    /\ consumeWrites[htok["h1"]] = 1

---------------------------------------------------------------------------
(* C24: the sweep removes exactly the expired entries.  After              *)
(* cleanup_expired_tokens has run at time now, no entry with               *)
(* now > expires_at is left, and every entry with now <= expires_at is     *)
(* still there with all its fields, used included, unchanged.              *)
C24_SweepExact ==
    [][Sweep =>
          /\ DOMAIN active_tokens' \subseteq DOMAIN active_tokens
          /\ \A k \in DOMAIN active_tokens' :
                 ~(now > active_tokens'[k].expires_at)
          /\ \A k \in DOMAIN active_tokens :
                 now <= active_tokens[k].expires_at
                     => /\ k \in DOMAIN active_tokens'
                        /\ active_tokens'[k] = active_tokens[k]]_vars

(* C24 witness: the sweep has removed the expired first token and kept the *)
(* second, consumed one, whose expires_at is the present time              *)
C24_Witness ==
    /\ lastCall.op = "sweep"
    /\ next_token > 2
    /\ ~Present(Token(1))
    /\ Present(Token(2))
    /\ active_tokens[Token(2)].used
    /\ now = active_tokens[Token(2)].expires_at

---------------------------------------------------------------------------
(* The registry with the passing of time as the only thing that is sure to *)
(* happen: nothing in the sources schedules cleanup_expired_tokens, and    *)
(* whether a client presents a token again is up to the client.            *)
SpecFnLive == SpecFn /\ WF_vars(\E d \in FnTickSteps : Tick(d))

(* C25: every issued challenge is eventually deleted from the registry     *)
(* once its expires_at has passed, by the sweep or by the eviction on      *)
(* lookup, whether or not it was consumed or is ever presented again.      *)
C25_EventuallyDeleted ==
    \A t \in Tokens : Expired(t) ~> ~Present(t)

---------------------------------------------------------------------------
(* C26: issue adds exactly one entry.  A successful issue(fingerprint,     *)
(* client_address) adds one new registry entry, keyed by the token it      *)
(* returns, holding the fingerprint supplied, used = false and             *)
(* expires_at = time of issue + 10 minutes; the challenges stored before   *)
(* are unchanged.                                                          *)
C26_IssueAddsOne ==
    [][\A fp \in IssueFps :
          (issue(fp, MaxTokens) /\ lastCall'.result = TRUE) =>
              /\ DOMAIN active_tokens' \ DOMAIN active_tokens = {Token(next_token)}
              /\ active_tokens'[Token(next_token)].fingerprint = fp
              /\ active_tokens'[Token(next_token)].used = FALSE
              /\ active_tokens'[Token(next_token)].expires_at
                     = now + TTL_MINUTES * SECONDS_PER_MINUTE
              /\ \A k \in DOMAIN active_tokens :
                     /\ k \in DOMAIN active_tokens'
                     /\ active_tokens'[k] = active_tokens[k]]_vars

(* C26 witness: a second token was issued, at a later time, next to a      *)
(* first one whose challenge is consumed                                   *)
C26_Witness ==
    /\ lastCall = [op |-> "issue", result |-> TRUE]
    /\ next_token = 3
    /\ Present(Token(1)) /\ active_tokens[Token(1)].used
    /\ Present(Token(2)) /\ ~active_tokens[Token(2)].used
    /\ now > 0
    /\ active_tokens[Token(2)].expires_at = now + TTL

---------------------------------------------------------------------------
(* C27: a failed proof-of-work attempt does not burn the token.  When      *)
(* validate_proof_of_work returns False because the digest does not start  *)
(* with the target (the step CallValidatePow records as "pow_mismatch"),   *)
(* the registry is unchanged (an unused challenge stays unused), so for    *)
(* every token that is not expired verify_security_token answers as        *)
(* before and a call with a correct nonce succeeds.                        *)
C27_FailedPowKeepsToken ==
    [][lastCall'.op = "pow_mismatch" =>
          /\ lastCall'.result = FALSE
          /\ active_tokens' = active_tokens
          /\ \A t \in DOMAIN active_tokens :
                Live(t) =>
                    /\ \A fp \in VerifyFps :
                           verify_security_token(active_tokens', t, fp, now)
                               = verify_security_token(active_tokens, t, fp, now)
                    /\ \E c \in Solutions :
                           validate_proof_of_work(active_tokens', c, t)]_vars

(* C27 witness: a wrong nonce was refused and the challenge of the token   *)
(* is still unused and unexpired                                           *)
C27_Witness ==
    /\ lastCall = [op |-> "pow_mismatch", result |-> FALSE]
    /\ next_token = 2
    /\ Live(Token(1))
    /\ ~active_tokens[Token(1)].used
    /\ consumeWrites[Token(1)] = 0

---------------------------------------------------------------------------
AfterPow == {"PowValid", "SignatureValid", "Decrypted", "Validated"}

(* C28: the token is consumed before the signature and decryption steps.   *)
(* A submission that has passed the proof-of-work check holds a consumed   *)
(* challenge; when a later step (signature, decryption, field validation,  *)
(* forwarding) fails, the registry is left as it is; and every later       *)
(* submission presenting a consumed token is rejected at                   *)
(* verify_security_token with 403.                                         *)
C28_ConsumedBeforeLaterSteps ==
    /\ [](\A h \in {"h1"} :
             (pc[h] \in AfterPow /\ Present(htok[h])) => active_tokens[htok[h]].used)
    /\ [][\A h \in {"h1"} :
            (pc[h] \in AfterPow /\ pc'[h] = "Rejected")
                => active_tokens' = active_tokens]_vars
    /\ [][\A h \in {"h1"} :
            (/\ pc[h] = "RateOk"
             /\ htok[h] \in Tokens
             /\ consumeWrites[htok[h]] >= 1
             /\ pc'[h] # pc[h])
                => /\ pc'[h] = "Rejected"
                   /\ status'[h] = 403]_vars

(* C28 witness: a submission brings a token that an earlier submission     *)
(* consumed without being forwarded; the challenge is still consumed and   *)
(* unexpired when verify_security_token is about to look at it             *)
C28_Witness ==
    /\ pc["h1"] = "RateOk"
    /\ htok["h1"] \in Tokens
    /\ consumeWrites[htok["h1"]] = 1
    /\ htok["h1"] \notin accepted
    /\ Live(htok["h1"])
    /\ active_tokens[htok["h1"]].used

---------------------------------------------------------------------------
(* RateLimiter.check_rate_limit statement by statement,                    *)
(* rate_limiting.py:17-52, for callers sharing one identifier and          *)
(* endpoint inside one window.  rate_count is the number of their rows in  *)
(* rate_limits.                                                            *)

RlFrame(c, f) ==
    /\ rl_calls' = [rl_calls EXCEPT ![c] = f]
    /\ UNCHANGED <<registryVars, lastCall, pc, htok, status, accepted, fpVars,
                   sigVars, cryptoVars, storeVars>>

(* the call begins *)
RlCall(c) ==
    /\ rl_calls[c].pc \in {"idle", "returned"}
    /\ RlFrame(c, [IdleFrame EXCEPT !.pc = "acquire"])
    /\ UNCHANGED rate_count

(* line 19: connection = await get_db_connection() *)
RlAcquire(c) ==
    /\ rl_calls[c].pc = "acquire"
    /\ RlFrame(c, [rl_calls[c] EXCEPT !.pc = "delete", !.connection = "held"])
    /\ UNCHANGED rate_count

(* lines 22-24: DELETE of the rows older than the window *)
RlDelete(c) ==
    /\ rl_calls[c].pc = "delete"
    /\ RlFrame(c, [rl_calls[c] EXCEPT !.pc = "select"])
    /\ UNCHANGED rate_count

(* lines 27-32: current_count = await connection.fetchval(SELECT ...) *)
RlSelect(c) ==
    /\ rl_calls[c].pc = "select"
    /\ RlFrame(c, [rl_calls[c] EXCEPT !.pc = "compare", !.current_count = rate_count])
    /\ UNCHANGED rate_count

(* lines 34-36: the comparison, return False when the limit is reached *)
RlCompare(c) ==
    /\ rl_calls[c].pc = "compare"
    /\ IF check_rate_limit(rl_calls[c].current_count, SUBSCRIBE_MAX_REQUESTS, FALSE)
       THEN RlFrame(c, [rl_calls[c] EXCEPT !.pc = "insert"])
       ELSE RlFrame(c, [rl_calls[c] EXCEPT !.pc = "finally", !.result = "False"])
    /\ UNCHANGED rate_count

(* lines 39-44: INSERT of the row of this request, return True *)
RlInsert(c) ==
    /\ rl_calls[c].pc = "insert"
    /\ rate_count' = rate_count + 1
    /\ RlFrame(c, [rl_calls[c] EXCEPT !.pc = "finally", !.result = "True"])

(* an except clause that denies the request *)
ExceptResult_fail_closed == "False"

(* lines 46-49: except Exception ... return True *)
ExceptResult == "True"

(* an awaited storage operation raises *)
RlRaise(c) ==
    /\ rl_calls[c].pc \in {"acquire", "delete", "select", "insert"}
    /\ RlFrame(c, [rl_calls[c] EXCEPT !.pc = "finally", !.result = ExceptResult,
                                      !.failed = rl_calls[c].pc])
    /\ UNCHANGED rate_count

(* lines 50-52: finally: if connection: await release_db_connection(connection) *)
RlFinally(c) ==
    /\ rl_calls[c].pc = "finally"
    /\ RlFrame(c, [rl_calls[c] EXCEPT
                      !.pc = "returned",
                      !.connection = IF @ = "held" THEN "released" ELSE @])
    /\ UNCHANGED rate_count

(* concurrent calls, storage operations succeed *)
NextRateRace ==
    \E c \in RateCallers :
        \/ RlCall(c)
        \/ RlAcquire(c)
        \/ RlDelete(c)
        \/ RlSelect(c)
        \/ RlCompare(c)
        \/ RlInsert(c)
        \/ RlFinally(c)

SpecRateRace == Init /\ [][NextRateRace]_vars

(* concurrent calls, any storage operation may raise *)
NextRate ==
    \/ NextRateRace
    \/ \E c \in RateCallers : RlRaise(c)

SpecRate == Init /\ [][NextRate]_vars

(* C29: the rate limiter fails open.  When a storage operation inside      *)
(* check_rate_limit raises (acquiring the connection, the cleanup DELETE,  *)
(* the count SELECT or the INSERT), the call returns True, and a           *)
(* connection that was acquired has been released when it returns.         *)
C29_RateLimiterFailsOpen ==
    \A c \in RateCallers :
        /\ rl_calls[c].failed # "none" => rl_calls[c].result = "True"
        /\ rl_calls[c].pc = "returned" =>
              /\ rl_calls[c].connection # "held"
              /\ (rl_calls[c].failed \in {"delete", "select", "insert"}
                      => rl_calls[c].connection = "released")

(* C29 witness: the INSERT of a call raised; the call has returned True    *)
(* and released its connection                                             *)
C29_Witness ==
    /\ rl_calls["r1"].pc = "returned"
    /\ rl_calls["r1"].failed = "insert"
    /\ rl_calls["r1"].result = "True"
    /\ rl_calls["r1"].connection = "released"

(* C30: the rate limit holds under concurrency.  In every interleaving of  *)
(* concurrent check_rate_limit calls for one identifier and endpoint, the  *)
(* calls that are allowed inside one window, each of which has inserted    *)
(* its row, are never more than max_requests.                              *)
C30_RateLimitUnderConcurrency ==
    rate_count <= SUBSCRIBE_MAX_REQUESTS

=============================================================================
